---- MODULE Spec2Model ----
(***************************************************************************)
(* Certificate lifecycle engine of ingress-nginx:                          *)
(*   internal/ingress/controller/store/backend_ssl.go  (syncSecret)        *)
(*   internal/net/ssl/ssl.go  (CreateSSLCert, StoreSSLCertOnDisk,          *)
(*                             AddOrUpdateDHParam, TLSListener)            *)
(*                                                                         *)
(* Byte slices are sequences of tokens.  A token is a record               *)
(* [type, der]: a PEM block carries its type label and the identity of     *)
(* its DER payload, "NL" is a newline, "TEXT" is bytes that are not PEM.   *)
(* File names are sequences of characters.                                 *)
(***************************************************************************)
EXTENDS Integers, Sequences, FiniteSets, TLC

(***************************************************************************)
(* Bounds of the model.                                                    *)
(***************************************************************************)
MaxSecretChanges == 1
MaxSyncs == 2
MaxFileChanges == 2
MaxLookups == 2
MaxDHCalls == 2

(***************************************************************************)
(* Bytes, PEM and X.509.                                                   *)
(***************************************************************************)
NL == [type |-> "NL", der |-> "nl"]
Junk == [type |-> "TEXT", der |-> "junk"]
Block(t, d) == [type |-> t, der |-> d]

NoBlock == [ok |-> FALSE, type |-> "", der |-> ""]

\* encoding/pem Decode: the first PEM block of the input, skipping what is
\* not PEM; no block when there is none.
RECURSIVE pemDecode(_)
pemDecode(b) ==
    IF b = <<>> THEN NoBlock
    ELSE IF Head(b).type \in {"NL", "TEXT"} THEN pemDecode(Tail(b))
    ELSE [ok |-> TRUE, type |-> Head(b).type, der |-> Head(b).der]

\* The blocks of b whose type is one of types, in order.
Blocks(b, types) == SelectSeq(b, LAMBDA t : t.type \in types)

\* The certificates the model knows: subject CommonName, the entries of the
\* subjectAltName extension (tag 1 rfc822Name, 2 dNSName, 7 iPAddress with
\* its length), public key, issuer, expiry, and whether the chain verifies
\* against the system roots.
San(tag, val, len) == [tag |-> tag, val |-> val, len |-> len]

Certs ==
    [leafA  |-> [cn |-> "b.com",
                 san |-> <<San(2, "c.com", 5), San(2, "a.com", 5), San(2, "b.com", 5)>>,
                 pub |-> "k1", issuer |-> "rootCA", notAfter |-> 10,
                 trusted |-> FALSE],
     leafB  |-> [cn |-> "a.com", san |-> <<>>,
                 pub |-> "k2", issuer |-> "rootCA", notAfter |-> 20,
                 trusted |-> TRUE],
     leafC  |-> [cn |-> "c.com",
                 san |-> <<San(2, "b.com", 5), San(1, "x@a.com", 7), San(2, "a.com", 5),
                           San(7, "ip", 4), San(2, "b.com", 5)>>,
                 pub |-> "k1", issuer |-> "otherCA", notAfter |-> 10,
                 trusted |-> FALSE],
     leafD  |-> [cn |-> "", san |-> <<San(2, "c.com", 5), San(2, "b.com", 5)>>,
                 pub |-> "k2", issuer |-> "rootCA", notAfter |-> 20,
                 trusted |-> TRUE],
     rootCA |-> [cn |-> "root", san |-> <<>>,
                 pub |-> "kr", issuer |-> "rootCA", notAfter |-> 30,
                 trusted |-> FALSE],
     otherCA |-> [cn |-> "other", san |-> <<>>,
                 pub |-> "ko", issuer |-> "otherCA", notAfter |-> 30,
                 trusted |-> FALSE]]

\* crypto/x509 ParseCertificate: fails on a payload that is no certificate.
ParsesAsCert(d) == d \in DOMAIN Certs

\* The lexicographic order of the host names of the model.
NameRank(n) ==
    CASE n = ""      -> 0
      [] n = "a.com" -> 1
      [] n = "b.com" -> 2
      [] n = "c.com" -> 3
      [] n = "other" -> 4
      [] n = "root"  -> 5
      [] OTHER       -> 6

SeqToSet(s) == {s[i] : i \in 1..Len(s)}

\* sets.String.List: the members in ascending order.
RECURSIVE SortedList(_)
SortedList(S) ==
    IF S = {} THEN <<>>
    ELSE LET m == CHOOSE x \in S : \A y \in S : NameRank(x) <= NameRank(y)
         IN <<m>> \o SortedList(S \ {m})

PrivateKeyTypes == {"RSA PRIVATE KEY", "EC PRIVATE KEY", "PRIVATE KEY"}

\* crypto/tls X509KeyPair: the first CERTIFICATE block of the certificate
\* input and the first private-key block of the key input must exist, parse
\* and belong together.  "" is the nil error.
X509KeyPair(certBytes, keyBytes) ==
    LET cs == Blocks(certBytes, {"CERTIFICATE"})
        ks == Blocks(keyBytes, PrivateKeyTypes)
    IN  IF cs = <<>> THEN [err |-> "tls: no certificate PEM data", leaf |-> "", key |-> ""]
        ELSE IF ks = <<>> THEN [err |-> "tls: no private key PEM data", leaf |-> "", key |-> ""]
        ELSE IF ~ParsesAsCert(cs[1].der) THEN [err |-> "x509: malformed certificate", leaf |-> "", key |-> ""]
        ELSE IF Certs[cs[1].der].pub # ks[1].der THEN [err |-> "tls: private key does not match public key", leaf |-> "", key |-> ""]
        ELSE [err |-> "", leaf |-> cs[1].der, key |-> ks[1].der]


(***************************************************************************)
(* internal/net/ssl/ssl.go: the builders.                                  *)
(***************************************************************************)
\* file.DefaultSSLDirectory, one path element.
DefaultSSLDirectory == <<"/etc/ingress-controller/ssl">>

\* getPemFileName: "<dir>/<fullSecretName>.pem" and "<fullSecretName>.pem".
pemName(fullSecretName) == fullSecretName \o <<".", "p", "e", "m">>
getPemFileName(fullSecretName) ==
    DefaultSSLDirectory \o <<"/">> \o pemName(fullSecretName)

\* The record type ingress.SSLCert.  <<>> is the empty string, "" the nil
\* certificate.
NoSHA == [set |-> FALSE, of |-> <<>>]
NoSSLCert ==
    [Certificate |-> "", CN |-> <<>>, ExpireTime |-> 0, PemCertKey |-> <<>>,
     PemFileName |-> <<>>, CAFileName |-> <<>>, PemSHA |-> NoSHA,
     Name |-> <<>>, Namespace |-> <<>>]

\* The SHA-1 digest of a content.
SHA1(content) == [set |-> TRUE, of |-> content]

\* file.SHA1(filename): the checksum of what the file holds in the storage
\* fs when it is called, no checksum when there is no such file.
FileSHA1(fs, filename) == IF filename \in DOMAIN fs THEN SHA1(fs[filename]) ELSE NoSHA

\* SSLCert.Equal: value equality of two records.
Equal(s1, s2) ==
    /\ s1.CAFileName = s2.CAFileName
    /\ s1.PemFileName = s2.PemFileName
    /\ s1.PemSHA = s2.PemSHA
    /\ s1.ExpireTime = s2.ExpireTime
    /\ s1.Certificate = s2.Certificate
    /\ s1.PemCertKey = s2.PemCertKey
    /\ s1.CN = s2.CN

\* verifyPemCertAgainstRootCA: the certificate chains to a root of the pool
\* made of the CERTIFICATE blocks of ca.
verifyPemCertAgainstRootCA(pemCert, ca) ==
    LET roots == {b.der : b \in SeqToSet(Blocks(ca, {"CERTIFICATE"}))}
    IN  IF pemCert \in DOMAIN Certs /\ Certs[pemCert].issuer \in roots
        THEN "" ELSE "x509: certificate signed by unknown authority"

\* fullChainCert: nil data when the chain verifies as it is, the fetched
\* chain otherwise; net is the outcome of the network fetch.
fullChainCert(in, net) ==
    LET blk == pemDecode(in)
    IN  IF ~blk.ok \/ ~ParsesAsCert(blk.der)
        THEN [err |-> "decode", data |-> <<>>]
        ELSE IF Certs[blk.der].trusted THEN [err |-> "", data |-> <<>>]
        ELSE IF net = "fail" THEN [err |-> "fetch", data |-> <<>>]
        ELSE [err |-> "",
              data |-> <<Block("CERTIFICATE", blk.der),
                         Block("CERTIFICATE", Certs[blk.der].issuer)>>]

\* parseSANExtension: the dNSName and rfc822Name values, failing on an
\* iPAddress whose length is neither 4 nor 16.
parseSANExtension(value) ==
    IF \E i \in 1..Len(value) : value[i].tag = 7 /\ value[i].len \notin {4, 16}
    THEN [err |-> "x509: certificate contained IP address of length", dnsNames |-> <<>>, emailAddresses |-> <<>>]
    ELSE [err |-> "",
          dnsNames |-> SelectSeq(value, LAMBDA e : e.tag = 2),
          emailAddresses |-> SelectSeq(value, LAMBDA e : e.tag = 1)]

\* crypto/x509: Certificate.DNSNames, the dNSName entries.
DNSNames(d) == {e.val : e \in SeqToSet(SelectSeq(Certs[d].san, LAMBDA e : e.tag = 2))}

\* Mutant: the subject CommonName is left out.
CommonNames_SANOnly(d) == DNSNames(d)

\* The names CreateSSLCert collects: CommonName, DNSNames and the dNSName
\* values of every subjectAltName extension that parses.
CommonNames(d) ==
    LET ext == parseSANExtension(Certs[d].san)
        more == IF Certs[d].san # <<>> /\ ext.err = ""
                THEN {e.val : e \in SeqToSet(ext.dnsNames)} ELSE {}
    IN  {Certs[d].cn} \cup DNSNames(d) \cup more

\* Mutant: the data of the chain resolver is used even when it failed.
Completed_IgnoreError(cert, chain) == chain.data

\* CreateSSLCert with chain completion: the buffer keeps cert when
\* fullChainCert failed; otherwise it is reset and the data is written.
Completed(cert, chain) == IF chain.err # "" THEN cert ELSE chain.data

\* outcome of the network as further inputs.
CreateSSLCert(cert, key, completion, net) ==
    LET chain == fullChainCert(cert, net)
        first == IF completion THEN Completed(cert, chain) ELSE cert
        pemCertBuffer == first \o <<NL>> \o key
        pemBlock == pemDecode(pemCertBuffer)
    IN  IF ~pemBlock.ok
        THEN [err |-> "no valid PEM formatted block found", sslCert |-> NoSSLCert]
        ELSE IF pemBlock.type # "CERTIFICATE"
        THEN [err |-> "no certificate PEM data found", sslCert |-> NoSSLCert]
        ELSE IF ~ParsesAsCert(pemBlock.der)
        THEN [err |-> "x509: malformed certificate", sslCert |-> NoSSLCert]
        ELSE IF X509KeyPair(cert, key).err # ""
        THEN [err |-> "certificate and private key does not have a matching public key",
              sslCert |-> NoSSLCert]
        ELSE [err |-> "",
              sslCert |-> [NoSSLCert EXCEPT
                  !.Certificate = pemBlock.der,
                  !.CN = SortedList(CommonNames(pemBlock.der)),
                  !.ExpireTime = Certs[pemBlock.der].notAfter,
                  !.PemCertKey = pemCertBuffer]]

\* CreateCACert(ca).
CreateCACert(ca) ==
    LET pemCABlock == pemDecode(ca)
    IN  IF ~pemCABlock.ok
        THEN [err |-> "no valid PEM formatted block found", sslCert |-> NoSSLCert]
        ELSE IF pemCABlock.type # "CERTIFICATE"
        THEN [err |-> "no certificate PEM data found", sslCert |-> NoSSLCert]
        ELSE IF ~ParsesAsCert(pemCABlock.der)
        THEN [err |-> "x509: malformed certificate", sslCert |-> NoSSLCert]
        ELSE [err |-> "", sslCert |-> [NoSSLCert EXCEPT !.Certificate = pemCABlock.der]]


(***************************************************************************)
(* The secrets of the lister.  A field of Secret.Data is absent, present   *)
(* with a nil value, or present with bytes (possibly of length zero).      *)
(***************************************************************************)
Absent == [st |-> "absent", b |-> <<>>]
NilValue == [st |-> "nil", b |-> <<>>]
Bytes(b) == [st |-> "val", b |-> b]

\* v, ok := Data[k]: ok, v == nil and len(v).
Has(f) == f.st # "absent"
IsNil(f) == f.st # "val"

CertPEM(d) == <<Block("CERTIFICATE", d), NL>>
KeyPEM(d) == <<Block("RSA PRIVATE KEY", d), NL>>
DHPEM(d) == <<Block("DH PARAMETERS", d), NL>>

Data(crt, key, ca, auth) == [crt |-> crt, key |-> key, ca |-> ca, auth |-> auth]
NoSecret == [found |-> FALSE, Data |-> Data(Absent, Absent, Absent, Absent)]
Secret(d) == [found |-> TRUE, Data |-> d]

\* The secret records the environment may store under a key.
SecretShapes ==
    { Data(Bytes(CertPEM("leafA")), Bytes(KeyPEM("k1")), Absent, Absent),
      Data(Bytes(CertPEM("leafB")), Bytes(KeyPEM("k2")), Absent, Absent),
      Data(Bytes(CertPEM("leafA")), Bytes(KeyPEM("k1")), Bytes(CertPEM("rootCA")), Absent),
      Data(Bytes(CertPEM("leafA")), Bytes(KeyPEM("k1")), Bytes(CertPEM("otherCA")), Absent),
      Data(Absent, Absent, Bytes(CertPEM("rootCA")), Absent),
      Data(Absent, Absent, Absent, Bytes(<<Junk>>)),
      Data(Absent, Absent, Absent, Absent),
      Data(Bytes(<<>>), Bytes(KeyPEM("k1")), Bytes(CertPEM("rootCA")), Absent),
      Data(NilValue, Bytes(KeyPEM("k1")), Absent, Bytes(<<Junk>>)),
      Data(Bytes(CertPEM("leafA")), Absent, Bytes(CertPEM("rootCA")), Absent),
      Data(Absent, Absent, Absent, NilValue) }

\* Secret keys "namespace/name": a-b/c and a/b-c.
Key1 == <<"a", "-", "b", "/", "c">>
Key2 == <<"a", "/", "b", "-", "c">>
Keys == {Key1, Key2}

\* The records stored under a key: every shape under the first key, the
\* shapes that reach the disk under the second.
ShapesOf(k) ==
    IF k = Key1 THEN SecretShapes
    ELSE { Data(Bytes(CertPEM("leafB")), Bytes(KeyPEM("k2")), Absent, Absent),
           Data(Bytes(CertPEM("leafA")), Bytes(KeyPEM("k1")), Bytes(CertPEM("rootCA")), Absent),
           Data(Absent, Absent, Bytes(CertPEM("rootCA")), Absent) }

\* strings.Replace(secretName, "/", "-", -1)
nsSecName(secretName) ==
    [i \in 1..Len(secretName) |-> IF secretName[i] = "/" THEN "-" ELSE secretName[i]]

\* The namespace and the name of the secret stored under a key.
SlashAt(k) == CHOOSE i \in 1..Len(k) : k[i] = "/" /\ \A j \in 1..(i-1) : k[j] # "/"
NamespaceOf(k) == SubSeq(k, 1, SlashAt(k) - 1)
NameOf(k) == SubSeq(k, SlashAt(k) + 1, Len(k))

\* ConfigureCACert: "<dir>/ca-<name>.pem"
caFileName(name) ==
    DefaultSSLDirectory \o <<"/", "c", "a", "-">> \o name \o <<".", "p", "e", "m">>


(***************************************************************************)
(* State.                                                                  *)
(***************************************************************************)
VARIABLES
    secrets,                   \* s.listers.Secret: key -> secret record
    EnableDynamicCertificates, \* ngx_config.EnableDynamicCertificates
    EnableSSLChainCompletion,  \* ngx_config.EnableSSLChainCompletion
    files,                     \* the filesystem: path -> content
    sslStore,                  \* s.sslStore: key -> cached SSLCert
    updateCh,                  \* events sent on s.updateCh
    syncSecretMu,              \* s.syncSecretMu is held
    pc,                        \* position of each caller of syncSecret
    loc,                       \* its local variables
    hist,                      \* the last finished call of syncSecret
    nSyncs, nChanges           \* calls and secret changes so far

syncVars == <<secrets, EnableDynamicCertificates, EnableSSLChainCompletion, files,
              sslStore, updateCh, syncSecretMu, pc, loc, hist, nSyncs, nChanges>>

syncVarsButFiles == <<secrets, EnableDynamicCertificates, EnableSSLChainCompletion,
                      sslStore, updateCh, syncSecretMu, pc, loc, hist, nSyncs, nChanges>>

VARIABLES
    certFile, keyFile,   \* the files at certificatePath and keyPath
    tlCertificate,       \* tl.certificate
    tlErr,               \* tl.err
    tlLock,              \* tl.lock is held
    phase,               \* NewTLSListener: "new", "loading", "serving", "panic"
    watching,            \* the two file watchers are registered
    pending,             \* file events each watcher has not handled yet
    lpc,                 \* position of each caller of load
    lloc,                \* its local variables
    hpc, hres,           \* a handshake in GetCertificate and what it returned
    hLast,               \* the last finished reload when the handshake took the lock
    lastReload,          \* how the last finished reload of a watcher ended
    initErr,             \* the error of the load made by NewTLSListener
    nFileChanges, nLookups,
    nReloads             \* calls of load the watchers have made

tlsVars == <<certFile, keyFile, tlCertificate, tlErr, tlLock, phase, watching, pending,
             lpc, lloc, hpc, hres, hLast, lastReload, initErr, nFileChanges, nLookups, nReloads>>

VARIABLES
    dpc,    \* position of the caller of AddOrUpdateDHParam
    dloc,   \* its local variables
    nDH     \* calls so far

dhVars == <<dpc, dloc, nDH>>

VARIABLES
    bpc,            \* a caller of CreateSSLCert: "call" before, "done" after
    bcert, bkey,    \* its arguments cert and key
    bnet,           \* whether the network answers the chain resolver
    bres            \* what CreateSSLCert returned

buildVars == <<bpc, bcert, bkey, bnet, bres>>

VARIABLES
    certificate_data,     \* ngx.shared.certificate_data: hostname -> value
    configuration_data,   \* ngx.shared.configuration_data: key -> value
    request,              \* method and path of the last request _M.call handled
    ngxStatus             \* the ngx.status it was answered with

luaVars == <<certificate_data, configuration_data, request, ngxStatus>>

Procs == {"w1", "w2"}

NoEntry == [has |-> FALSE, cert |-> NoSSLCert]

\* The locals of a call that has not started.
Loc0 ==
    [key |-> <<>>, secret |-> NoSecret, ca |-> <<>>, sslCert |-> NoSSLCert,
     err |-> "", certAndKey |-> <<>>, shape |-> "", chain |-> "",
     warned |-> FALSE, io |-> FALSE, writes |-> 0, events |-> 0,
     cache0 |-> [k \in Keys |-> NoEntry], files0 |-> <<>>]

ErrSecretForAuth == "secret is used for authentication"
\* Mutant: no error is recognised as ErrSecretForAuth.
isErrSecretForAuth_Never(e) == FALSE

isErrSecretForAuth(e) == e = ErrSecretForAuth

InitSync ==
    /\ secrets = [k \in Keys |-> NoSecret]
    /\ EnableDynamicCertificates \in BOOLEAN
    /\ EnableSSLChainCompletion \in BOOLEAN
    /\ files = <<>>
    /\ sslStore = [k \in Keys |-> NoEntry]
    /\ updateCh = 0
    /\ syncSecretMu = FALSE
    /\ pc = [p \in Procs |-> "idle"]
    /\ loc = [p \in Procs |-> Loc0]
    /\ hist = <<>>
    /\ nSyncs = 0
    /\ nChanges = 0

Goto(p, label) == pc' = [pc EXCEPT ![p] = label]

\* The secret source stores, replaces or deletes a secret.  A call reads the
\* lister once, in GetPem: a change during a call is a change right before
\* or right after it.
ChangeSecret(k) ==
    /\ UNCHANGED <<tlsVars, dhVars, buildVars, luaVars>>
    /\ nChanges < MaxSecretChanges
    /\ \A p \in Procs : pc[p] \in {"idle", "lock"}
    /\ \E sec \in {NoSecret} \cup {Secret(d) : d \in ShapesOf(k)} :
          /\ sec # secrets[k]
          /\ secrets' = [secrets EXCEPT ![k] = sec]
    /\ nChanges' = nChanges + 1
    /\ UNCHANGED <<EnableDynamicCertificates, EnableSSLChainCompletion, files, sslStore,
                   updateCh, syncSecretMu, pc, loc, hist, nSyncs>>

\* A change notification makes a worker call syncSecret(key).
SyncCall(p, k) ==
    /\ UNCHANGED <<tlsVars, dhVars, buildVars, luaVars>>
    /\ pc[p] = "idle"
    /\ nSyncs < MaxSyncs
    /\ nSyncs' = nSyncs + 1
    /\ loc' = [loc EXCEPT ![p] = [Loc0 EXCEPT !.key = k]]
    /\ Goto(p, "lock")
    /\ UNCHANGED <<secrets, EnableDynamicCertificates, EnableSSLChainCompletion, files,
                   sslStore, updateCh, syncSecretMu, hist, nChanges>>

\* Mutant: the lock is not taken.
LockGuard_None(p) == TRUE

\* syncSecret: s.syncSecretMu.Lock()
LockGuard(p) == ~syncSecretMu

Lock(p) ==
    /\ UNCHANGED <<tlsVars, dhVars, buildVars, luaVars>>
    /\ pc[p] = "lock"
    /\ LockGuard(p)
    /\ syncSecretMu' = TRUE
    /\ loc' = [loc EXCEPT ![p].cache0 = sslStore, ![p].files0 = files]
    /\ Goto(p, "getPem")
    /\ UNCHANGED <<secrets, EnableDynamicCertificates, EnableSSLChainCompletion, files,
                   sslStore, updateCh, hist, nSyncs, nChanges>>

\* Mutant: the branches test the length of the values, not their presence.
Shape_NonEmpty(d) ==
    IF Len(d.crt.b) > 0 /\ Len(d.key.b) > 0 THEN "keypair"
    ELSE IF Len(d.ca.b) > 0 THEN "caonly"
    ELSE IF ~IsNil(d.auth) THEN "auth"
    ELSE "malformed"

\* getPemCertificate: the branch taken for the fields of the secret.
Shape(d) ==
    IF Has(d.crt) /\ Has(d.key) THEN "keypair"
    ELSE IF ~IsNil(d.ca) /\ Len(d.ca.b) > 0 THEN "caonly"
    ELSE IF ~IsNil(d.auth) THEN "auth"
    ELSE "malformed"

\* What the chain completion of CreateSSLCert came to.
ChainOutcome(cert, net) ==
    IF ~EnableSSLChainCompletion THEN "off"
    ELSE IF fullChainCert(cert, net).err # "" THEN "err"
    ELSE IF fullChainCert(cert, net).data = <<>> THEN "nil"
    ELSE "fetched"

\* getPemCertificate ends well: the record gets the identity of the secret.
Named(sslCert, key) ==
    [sslCert EXCEPT !.Name = NameOf(key), !.Namespace = NamespaceOf(key)]

\* Whether the keypair is written to disk.
StoresOnDisk(ca) == ~EnableDynamicCertificates \/ Len(ca) > 0

\* getPemCertificate up to the first storage operation: fetch the secret,
\* choose the branch, build the record.
GetPem(p) ==
    /\ UNCHANGED <<tlsVars, dhVars, buildVars, luaVars>>
    /\ pc[p] = "getPem"
    /\ LET secret == secrets[loc[p].key]
           d == secret.Data
           ca == d.ca.b
           shape == Shape(d)
       IN  IF ~secret.found
           THEN /\ loc' = [loc EXCEPT ![p].err = "secret not found"]
                /\ Goto(p, "failed")
           ELSE IF shape = "keypair"
           THEN IF IsNil(d.crt)
                THEN /\ loc' = [loc EXCEPT ![p].err = "key 'tls.crt' missing from Secret",
                                           ![p].secret = secret, ![p].shape = shape]
                     /\ Goto(p, "failed")
                ELSE IF IsNil(d.key)
                THEN /\ loc' = [loc EXCEPT ![p].err = "key 'tls.key' missing from Secret",
                                           ![p].secret = secret, ![p].shape = shape]
                     /\ Goto(p, "failed")
                ELSE \E net \in {"ok", "fail"} :
                     LET r == CreateSSLCert(d.crt.b, d.key.b, EnableSSLChainCompletion, net)
                         l == [loc[p] EXCEPT !.secret = secret, !.shape = shape, !.ca = ca,
                                             !.chain = ChainOutcome(d.crt.b, net)]
                     IN  IF r.err # ""
                         THEN /\ loc' = [loc EXCEPT ![p] = [l EXCEPT !.err = "unexpected error creating SSL Cert"]]
                              /\ Goto(p, "failed")
                         ELSE IF StoresOnDisk(ca)
                         THEN /\ loc' = [loc EXCEPT ![p] = [l EXCEPT !.sslCert = r.sslCert]]
                              /\ Goto(p, "storeCreate")
                         ELSE /\ loc' = [loc EXCEPT ![p] = [l EXCEPT !.sslCert = Named(r.sslCert, l.key)]]
                              /\ Goto(p, "compare")
           ELSE IF shape = "caonly"
           THEN LET r == CreateCACert(ca)
                    l == [loc[p] EXCEPT !.secret = secret, !.shape = shape, !.ca = ca]
                IN  IF r.err # ""
                    THEN /\ loc' = [loc EXCEPT ![p] = [l EXCEPT !.err = "unexpected error creating SSL Cert"]]
                         /\ Goto(p, "failed")
                    ELSE /\ loc' = [loc EXCEPT ![p] = [l EXCEPT !.sslCert = r.sslCert]]
                         /\ Goto(p, "caOnlyCreate")
           ELSE IF shape = "auth"
           THEN /\ loc' = [loc EXCEPT ![p].err = ErrSecretForAuth,
                                      ![p].secret = secret, ![p].shape = shape]
                /\ Goto(p, "failed")
           ELSE /\ loc' = [loc EXCEPT ![p].err = "secret contains no keypair or CA certificate",
                                      ![p].secret = secret, ![p].shape = shape]
                /\ Goto(p, "failed")
    /\ UNCHANGED <<secrets, EnableDynamicCertificates, EnableSSLChainCompletion, files,
                   sslStore, updateCh, syncSecretMu, hist, nSyncs, nChanges>>


\* The storage operations of file.Filesystem.
Exists(path) == path \in DOMAIN files
WriteFile(path, content) == files' = (path :> content) @@ files

\* A storage operation may fail at any time.
IOFailure(p, msg) ==
    /\ loc' = [loc EXCEPT ![p].err = msg, ![p].io = TRUE]
    /\ Goto(p, "failed")

\* StoreSSLCertOnDisk: fs.Create(pemFileName) creates or truncates the file.
StoreCreate(p) ==
    /\ UNCHANGED <<tlsVars, dhVars, buildVars, luaVars>>
    /\ pc[p] = "storeCreate"
    /\ \/ /\ WriteFile(getPemFileName(nsSecName(loc[p].key)), <<>>)
          /\ Goto(p, "storeWrite")
          /\ UNCHANGED <<loc>>
       \/ /\ IOFailure(p, "error while storing certificate and key")
          /\ UNCHANGED files
    /\ UNCHANGED <<secrets, EnableDynamicCertificates, EnableSSLChainCompletion,
                   sslStore, updateCh, syncSecretMu, hist, nSyncs, nChanges>>

\* Mutant: the key is left out of the file.
StoredContent_CertificatesOnly(sslCert) == Blocks(sslCert.PemCertKey, {"CERTIFICATE"})

\* StoreSSLCertOnDisk: what is written to the file.
StoredContent(sslCert) == sslCert.PemCertKey

\* StoreSSLCertOnDisk: pemFile.Write, then PemFileName and PemSHA are set.
StoreWrite(p) ==
    /\ UNCHANGED <<tlsVars, dhVars, buildVars, luaVars>>
    /\ pc[p] = "storeWrite"
    /\ LET path == getPemFileName(nsSecName(loc[p].key))
           content == StoredContent(loc[p].sslCert)
           stored == [loc[p].sslCert EXCEPT !.PemFileName = path, !.PemSHA = FileSHA1(files', path)]
       IN  \/ /\ WriteFile(path, content)
              /\ IF Len(loc[p].ca) > 0
                 THEN /\ loc' = [loc EXCEPT ![p].sslCert = stored]
                      /\ Goto(p, "caVerify")
                 ELSE /\ loc' = [loc EXCEPT ![p].sslCert = Named(stored, loc[p].key)]
                      /\ Goto(p, "compare")
           \/ /\ IOFailure(p, "error while storing certificate and key")
              /\ UNCHANGED files
    /\ UNCHANGED <<secrets, EnableDynamicCertificates, EnableSSLChainCompletion,
                   sslStore, updateCh, syncSecretMu, hist, nSyncs, nChanges>>

\* ConfigureCACertWithCertAndKey: verify the certificate against the CA,
\* then read the stored file.
CAVerify(p) ==
    /\ UNCHANGED <<tlsVars, dhVars, buildVars, luaVars>>
    /\ pc[p] = "caVerify"
    /\ LET c == loc[p].sslCert
       IN  IF verifyPemCertAgainstRootCA(c.Certificate, loc[p].ca) # ""
           THEN /\ loc' = [loc EXCEPT ![p].err = "error configuring CA certificate"]
                /\ Goto(p, "failed")
           ELSE IF ~Exists(c.PemFileName)
           THEN /\ loc' = [loc EXCEPT ![p].err = "error configuring CA certificate"]
                /\ Goto(p, "failed")
           ELSE \/ /\ loc' = [loc EXCEPT ![p].certAndKey = files[c.PemFileName]]
                   /\ Goto(p, "caCreate")
                \/ IOFailure(p, "error configuring CA certificate")
    /\ UNCHANGED <<secrets, EnableDynamicCertificates, EnableSSLChainCompletion, files,
                   sslStore, updateCh, syncSecretMu, hist, nSyncs, nChanges>>

\* ConfigureCACertWithCertAndKey: fs.Create(sslCert.PemFileName).
CACreate(p) ==
    /\ UNCHANGED <<tlsVars, dhVars, buildVars, luaVars>>
    /\ pc[p] = "caCreate"
    /\ \/ /\ WriteFile(loc[p].sslCert.PemFileName, <<>>)
          /\ Goto(p, "caWrite")
          /\ UNCHANGED <<loc>>
       \/ /\ IOFailure(p, "error configuring CA certificate")
          /\ UNCHANGED files
    /\ UNCHANGED <<secrets, EnableDynamicCertificates, EnableSSLChainCompletion,
                   sslStore, updateCh, syncSecretMu, hist, nSyncs, nChanges>>

\* Mutant: the newline between the key and the CA is not written.
CABundle_NoNewline(certAndKey, ca) == certAndKey \o ca

\* ConfigureCACertWithCertAndKey: the three writes.
CABundle(certAndKey, ca) == certAndKey \o <<NL>> \o ca

\* ConfigureCACertWithCertAndKey: write cert and key, a newline and the CA;
\* a failing write leaves what was written before it.
CAWrite(p) ==
    /\ UNCHANGED <<tlsVars, dhVars, buildVars, luaVars>>
    /\ pc[p] = "caWrite"
    /\ LET c == loc[p].sslCert
           content == CABundle(loc[p].certAndKey, loc[p].ca)
           done == [c EXCEPT !.CAFileName = c.PemFileName,
                                 !.PemSHA = FileSHA1(files', c.PemFileName)]
       IN  \/ /\ WriteFile(c.PemFileName, content)
              /\ loc' = [loc EXCEPT ![p].sslCert = Named(done, loc[p].key)]
              /\ Goto(p, "compare")
           \/ /\ IOFailure(p, "error configuring CA certificate")
              /\ \E part \in {<<>>, loc[p].certAndKey, loc[p].certAndKey \o <<NL>>} :
                    WriteFile(c.PemFileName, part)
    /\ UNCHANGED <<secrets, EnableDynamicCertificates, EnableSSLChainCompletion,
                   sslStore, updateCh, syncSecretMu, hist, nSyncs, nChanges>>

\* ConfigureCACert: fs.Create("<dir>/ca-<name>.pem").
CAOnlyCreate(p) ==
    /\ UNCHANGED <<tlsVars, dhVars, buildVars, luaVars>>
    /\ pc[p] = "caOnlyCreate"
    /\ \/ /\ WriteFile(caFileName(nsSecName(loc[p].key)), <<>>)
          /\ Goto(p, "caOnlyWrite")
          /\ UNCHANGED <<loc>>
       \/ /\ IOFailure(p, "error configuring CA certificate")
          /\ UNCHANGED files
    /\ UNCHANGED <<secrets, EnableDynamicCertificates, EnableSSLChainCompletion,
                   sslStore, updateCh, syncSecretMu, hist, nSyncs, nChanges>>

\* Mutant: a newline is written after the CA.
CAOnlyContent_Newline(ca) == ca \o <<NL>>

\* ConfigureCACert: what is written to the CA file.
CAOnlyContent(ca) == ca

\* ConfigureCACert: f.Write(ca), then the three fields of the record.
CAOnlyWrite(p) ==
    /\ UNCHANGED <<tlsVars, dhVars, buildVars, luaVars>>
    /\ pc[p] = "caOnlyWrite"
    /\ LET fileName == caFileName(nsSecName(loc[p].key))
           content == CAOnlyContent(loc[p].ca)
           done == [loc[p].sslCert EXCEPT !.PemFileName = fileName,
                                          !.CAFileName = fileName,
                                          !.PemSHA = FileSHA1(files', fileName)]
       IN  \/ /\ WriteFile(fileName, content)
              /\ loc' = [loc EXCEPT ![p].sslCert = Named(done, loc[p].key)]
              /\ Goto(p, "compare")
           \/ /\ IOFailure(p, "error configuring CA certificate")
              /\ UNCHANGED files
    /\ UNCHANGED <<secrets, EnableDynamicCertificates, EnableSSLChainCompletion,
                   sslStore, updateCh, syncSecretMu, hist, nSyncs, nChanges>>

\* Mutant: the error branch does not return.
SyncFailed_NoReturn(p) ==
    /\ UNCHANGED <<tlsVars, dhVars, buildVars, luaVars>>
    /\ pc[p] = "failed"
    /\ loc' = [loc EXCEPT ![p].warned = ~isErrSecretForAuth(loc[p].err)]
    /\ Goto(p, "compare")
    /\ UNCHANGED <<secrets, EnableDynamicCertificates, EnableSSLChainCompletion, files,
                   sslStore, updateCh, syncSecretMu, hist, nSyncs, nChanges>>

\* syncSecret: getPemCertificate returned an error; it is logged as a
\* warning unless it is ErrSecretForAuth, and the call returns.
SyncFailed(p) ==
    /\ UNCHANGED <<tlsVars, dhVars, buildVars, luaVars>>
    /\ pc[p] = "failed"
    /\ loc' = [loc EXCEPT ![p].warned = ~isErrSecretForAuth(loc[p].err)]
    /\ Goto(p, "unlock")
    /\ UNCHANGED <<secrets, EnableDynamicCertificates, EnableSSLChainCompletion, files,
                   sslStore, updateCh, syncSecretMu, hist, nSyncs, nChanges>>

\* Mutant: the record is written whether or not it equals the cached one.
NeedsUpdate_Always(cur, cert) == TRUE

\* syncSecret: the record must be written to the cache.
NeedsUpdate(cur, cert) == ~(cur.has /\ Equal(cur.cert, cert))

\* syncSecret: compare with s.GetLocalSSLCert(key); sslStore.Update or
\* sslStore.Add when the record differs or is new.
SyncCompare(p) ==
    /\ UNCHANGED <<tlsVars, dhVars, buildVars, luaVars>>
    /\ pc[p] = "compare"
    /\ IF NeedsUpdate(sslStore[loc[p].key], loc[p].sslCert)
       THEN /\ sslStore' = [sslStore EXCEPT ![loc[p].key] = [has |-> TRUE, cert |-> loc[p].sslCert]]
            /\ loc' = [loc EXCEPT ![p].writes = @ + 1]
            /\ Goto(p, "notify")
       ELSE /\ Goto(p, "unlock")
            /\ UNCHANGED <<sslStore, loc>>
    /\ UNCHANGED <<secrets, EnableDynamicCertificates, EnableSSLChainCompletion, files,
                   updateCh, syncSecretMu, hist, nSyncs, nChanges>>

\* sendDummyEvent: one event on s.updateCh.
sendDummyEvent(p) ==
    /\ UNCHANGED <<tlsVars, dhVars, buildVars, luaVars>>
    /\ pc[p] = "notify"
    /\ updateCh' = updateCh + 1
    /\ loc' = [loc EXCEPT ![p].events = @ + 1]
    /\ Goto(p, "unlock")
    /\ UNCHANGED <<secrets, EnableDynamicCertificates, EnableSSLChainCompletion, files,
                   sslStore, syncSecretMu, hist, nSyncs, nChanges>>

\* What hist keeps of a finished call.
Summary(l) ==
    [key |-> l.key, secret |-> l.secret, chain |-> l.chain, err |-> l.err,
     io |-> l.io, writes |-> l.writes, events |-> l.events,
     fresh |-> l.cache0[l.key] # [has |-> TRUE, cert |-> l.sslCert]]

\* Mutant: the mutex is released at the end of the function body only, so
\* the early return after an error keeps it.
Unlock_NotDeferred(p) ==
    /\ UNCHANGED <<tlsVars, dhVars, buildVars, luaVars>>
    /\ pc[p] = "unlock"
    /\ syncSecretMu' = (loc[p].err # "")
    /\ hist' = <<Summary(loc[p])>>
    /\ loc' = [loc EXCEPT ![p] = Loc0]
    /\ Goto(p, "idle")
    /\ UNCHANGED <<secrets, EnableDynamicCertificates, EnableSSLChainCompletion, files,
                   sslStore, updateCh, nSyncs, nChanges>>

\* syncSecret returns: the deferred s.syncSecretMu.Unlock().
Unlock(p) ==
    /\ UNCHANGED <<tlsVars, dhVars, buildVars, luaVars>>
    /\ pc[p] = "unlock"
    /\ syncSecretMu' = FALSE
    /\ hist' = <<Summary(loc[p])>>
    /\ loc' = [loc EXCEPT ![p] = Loc0]
    /\ Goto(p, "idle")
    /\ UNCHANGED <<secrets, EnableDynamicCertificates, EnableSSLChainCompletion, files,
                   sslStore, updateCh, nSyncs, nChanges>>



(***************************************************************************)
(* internal/net/ssl/ssl.go: TLSListener.                                   *)
(***************************************************************************)
\* A *tls.Certificate: nil, or a pointer to a keypair; the zero keypair has
\* no certificate and no key.
NilCertificate == [ptr |-> "nil", leaf |-> "", key |-> ""]
Certificate(leaf, key) == [ptr |-> "set", leaf |-> leaf, key |-> key]
IsEmptyKeypair(c) == c.leaf = "" /\ c.key = ""

\* A file: readable with its bytes, or not readable.
Readable(b) == [ok |-> TRUE, b |-> b]
Unreadable == [ok |-> FALSE, b |-> <<>>]

CertFileContents == {Readable(CertPEM("leafA")), Readable(CertPEM("leafB")), Unreadable}
KeyFileContents == {Readable(KeyPEM("k1")), Readable(KeyPEM("k2")), Readable(<<Junk>>), Unreadable}

\* The watcher of the certificate file, the watcher of the key file, and the
\* call of load made by NewTLSListener.
Watchers == {"certWatcher", "keyWatcher"}
Loaders == Watchers \cup {"new"}

LLoc0 == [certBytes |-> <<>>, keyBytes |-> <<>>, err |-> "",
          cert |-> Certificate("", "")]

InitTLS ==
    /\ certFile \in CertFileContents
    /\ keyFile \in KeyFileContents
    /\ tlCertificate = NilCertificate
    /\ tlErr = ""
    /\ tlLock = FALSE
    /\ phase = "new"
    /\ watching = FALSE
    /\ pending = [w \in Watchers |-> 0]
    /\ lpc = [l \in Loaders |-> "idle"]
    /\ lloc = [l \in Loaders |-> LLoc0]
    /\ hpc = "idle"
    /\ hres = [certificate |-> NilCertificate, err |-> ""]
    /\ hLast = "none"
    /\ lastReload = "none"
    /\ initErr = ""
    /\ nFileChanges = 0
    /\ nReloads = 0
    /\ nLookups = 0

\* The listener before NewTLSListener is called, with one pair of files.
QuietTLS ==
    /\ InitTLS
    /\ certFile = Unreadable
    /\ keyFile = Unreadable

LGoto(l, label) == lpc' = [lpc EXCEPT ![l] = label]

\* NewTLSListener: file.NewLocalFS() fails and the constructor panics, or
\* the listener is built and load is called.
NewTLSListener ==
    /\ UNCHANGED <<syncVars, dhVars, buildVars, luaVars>>
    /\ phase = "new"
    /\ \/ /\ phase' = "panic"
          /\ UNCHANGED lpc
       \/ /\ phase' = "loading"
          /\ LGoto("new", "readCert")
    /\ UNCHANGED <<certFile, keyFile, tlCertificate, tlErr, tlLock, watching, pending,
                   lloc, hpc, hres, hLast, lastReload, initErr, nFileChanges, nLookups, nReloads>>

\* load: tl.fs.ReadFile(tl.certificatePath).
LoadReadCert(l) ==
    /\ UNCHANGED <<syncVars, dhVars, buildVars, luaVars>>
    /\ lpc[l] = "readCert"
    /\ IF certFile.ok
       THEN /\ lloc' = [lloc EXCEPT ![l].certBytes = certFile.b]
            /\ LGoto(l, "readKey")
       ELSE /\ lloc' = [lloc EXCEPT ![l].err = "open certificate: no such file"]
            /\ LGoto(l, "certFailedCertificate")
    /\ UNCHANGED <<certFile, keyFile, tlCertificate, tlErr, tlLock, phase, watching, pending,
                   hpc, hres, hLast, lastReload, initErr, nFileChanges, nLookups, nReloads>>

\* load: tl.certificate = nil, without the lock.
LoadClearCertificate(l) ==
    /\ UNCHANGED <<syncVars, dhVars, buildVars, luaVars>>
    /\ lpc[l] \in {"certFailedCertificate", "keyFailedCertificate"}
    /\ tlCertificate' = NilCertificate
    /\ LGoto(l, IF lpc[l] = "certFailedCertificate" THEN "certFailedErr" ELSE "keyFailedErr")
    /\ UNCHANGED <<certFile, keyFile, tlErr, tlLock, phase, watching, pending,
                   lloc, hpc, hres, hLast, lastReload, initErr, nFileChanges, nLookups, nReloads>>

\* load: tl.err = err, without the lock.
LoadSetErr(l) ==
    /\ UNCHANGED <<syncVars, dhVars, buildVars, luaVars>>
    /\ lpc[l] \in {"certFailedErr", "keyFailedErr"}
    /\ tlErr' = lloc[l].err
    /\ LGoto(l, IF lpc[l] = "certFailedErr" THEN "readKey" ELSE "parse")
    /\ UNCHANGED <<certFile, keyFile, tlCertificate, tlLock, phase, watching, pending,
                   lloc, hpc, hres, hLast, lastReload, initErr, nFileChanges, nLookups, nReloads>>

\* load: tl.fs.ReadFile(tl.keyPath).
LoadReadKey(l) ==
    /\ UNCHANGED <<syncVars, dhVars, buildVars, luaVars>>
    /\ lpc[l] = "readKey"
    /\ IF keyFile.ok
       THEN /\ lloc' = [lloc EXCEPT ![l].keyBytes = keyFile.b, ![l].err = ""]
            /\ LGoto(l, "parse")
       ELSE /\ lloc' = [lloc EXCEPT ![l].err = "open key: no such file"]
            /\ LGoto(l, "keyFailedCertificate")
    /\ UNCHANGED <<certFile, keyFile, tlCertificate, tlErr, tlLock, phase, watching, pending,
                   hpc, hres, hLast, lastReload, initErr, nFileChanges, nLookups, nReloads>>

\* load: cert, err := tls.X509KeyPair(certBytes, keyBytes).
LoadParse(l) ==
    /\ UNCHANGED <<syncVars, dhVars, buildVars, luaVars>>
    /\ lpc[l] = "parse"
    /\ LET r == X509KeyPair(lloc[l].certBytes, lloc[l].keyBytes)
       IN  lloc' = [lloc EXCEPT ![l].cert = Certificate(r.leaf, r.key), ![l].err = r.err]
    /\ LGoto(l, "lock")
    /\ UNCHANGED <<certFile, keyFile, tlCertificate, tlErr, tlLock, phase, watching, pending,
                   hpc, hres, hLast, lastReload, initErr, nFileChanges, nLookups, nReloads>>

\* load: tl.lock.Lock().
LoadLock(l) ==
    /\ UNCHANGED <<syncVars, dhVars, buildVars, luaVars>>
    /\ lpc[l] = "lock"
    /\ ~tlLock
    /\ tlLock' = TRUE
    /\ LGoto(l, "swapCertificate")
    /\ UNCHANGED <<certFile, keyFile, tlCertificate, tlErr, phase, watching, pending,
                   lloc, hpc, hres, hLast, lastReload, initErr, nFileChanges, nLookups, nReloads>>

\* Mutant: a failed reload keeps the certificate that is loaded.
SwappedCertificate_KeepLastGood(old, cert, err) == IF err # "" THEN old ELSE cert

\* load: the certificate assigned by "tl.certificate, tl.err = &cert, err".
SwappedCertificate(old, cert, err) == cert

\* load: tl.certificate = &cert, with the lock.
LoadSwapCertificate(l) ==
    /\ UNCHANGED <<syncVars, dhVars, buildVars, luaVars>>
    /\ lpc[l] = "swapCertificate"
    /\ tlCertificate' = SwappedCertificate(tlCertificate, lloc[l].cert, lloc[l].err)
    /\ LGoto(l, "swapErr")
    /\ UNCHANGED <<certFile, keyFile, tlErr, tlLock, phase, watching, pending,
                   lloc, hpc, hres, hLast, lastReload, initErr, nFileChanges, nLookups, nReloads>>

\* load: tl.err = err, with the lock.
LoadSwapErr(l) ==
    /\ UNCHANGED <<syncVars, dhVars, buildVars, luaVars>>
    /\ lpc[l] = "swapErr"
    /\ tlErr' = lloc[l].err
    /\ LGoto(l, "unlock")
    /\ UNCHANGED <<certFile, keyFile, tlCertificate, tlLock, phase, watching, pending,
                   lloc, hpc, hres, hLast, lastReload, initErr, nFileChanges, nLookups, nReloads>>

\* load returns: the deferred tl.lock.Unlock().
LoadUnlock(l) ==
    /\ UNCHANGED <<syncVars, dhVars, buildVars, luaVars>>
    /\ lpc[l] = "unlock"
    /\ tlLock' = FALSE
    /\ IF l = "new"
       THEN /\ initErr' = lloc[l].err
            /\ LGoto(l, "done")
            /\ UNCHANGED lastReload
       ELSE /\ lastReload' = IF lloc[l].err = "" THEN "ok" ELSE "failed"
            /\ LGoto(l, "idle")
            /\ UNCHANGED initErr
    /\ lloc' = [lloc EXCEPT ![l] = LLoc0]
    /\ UNCHANGED <<certFile, keyFile, tlCertificate, tlErr, phase, watching, pending,
                   hpc, hres, hLast, nFileChanges, nLookups, nReloads>>

\* Mutant: NewTLSListener panics when the first load failed.
Register_FatalOnLoadError ==
    /\ UNCHANGED <<syncVars, dhVars, buildVars, luaVars>>
    /\ phase = "loading"
    /\ lpc["new"] = "done"
    /\ IF tlErr # ""
       THEN phase' = "panic" /\ UNCHANGED watching
       ELSE phase' = "serving" /\ watching' = TRUE
    /\ UNCHANGED <<certFile, keyFile, tlCertificate, tlErr, tlLock, pending, lpc,
                   lloc, hpc, hres, hLast, lastReload, initErr, nFileChanges, nLookups, nReloads>>

\* NewTLSListener after l.load(): the two watch.NewFileWatcher calls, and the
\* listener is returned.
Register ==
    /\ UNCHANGED <<syncVars, dhVars, buildVars, luaVars>>
    /\ phase = "loading"
    /\ lpc["new"] = "done"
    /\ phase' = "serving"
    /\ watching' = TRUE
    /\ UNCHANGED <<certFile, keyFile, tlCertificate, tlErr, tlLock, pending, lpc,
                   lloc, hpc, hres, hLast, lastReload, initErr, nFileChanges, nLookups, nReloads>>

\* The environment replaces or removes one of the two files; a registered
\* watcher gets an event.
ChangeFile(w) ==
    /\ UNCHANGED <<syncVars, dhVars, buildVars, luaVars>>
    /\ nFileChanges < MaxFileChanges
    /\ nFileChanges' = nFileChanges + 1
    /\ IF w = "certWatcher"
       THEN /\ \E c \in CertFileContents \ {certFile} : certFile' = c
            /\ UNCHANGED keyFile
       ELSE /\ \E c \in KeyFileContents \ {keyFile} : keyFile' = c
            /\ UNCHANGED certFile
    /\ pending' = IF watching THEN [pending EXCEPT ![w] = @ + 1] ELSE pending
    /\ UNCHANGED <<tlCertificate, tlErr, tlLock, phase, watching, lpc, lloc, hpc, hres,
                   hLast, lastReload, initErr, nLookups, nReloads>>

\* The goroutine of a watcher takes an event and calls load.
WatchFire(w) ==
    /\ UNCHANGED <<syncVars, dhVars, buildVars, luaVars>>
    /\ pending[w] > 0
    /\ lpc[w] = "idle"
    /\ pending' = [pending EXCEPT ![w] = @ - 1]
    /\ LGoto(w, "readCert")
    /\ nReloads' = nReloads + 1
    /\ UNCHANGED <<certFile, keyFile, tlCertificate, tlErr, tlLock, phase, watching,
                   lloc, hpc, hres, hLast, lastReload, initErr, nFileChanges, nLookups>>

\* GetCertificate: tl.lock.Lock().
GetCertificateLock ==
    /\ UNCHANGED <<syncVars, dhVars, buildVars, luaVars>>
    /\ phase = "serving"
    /\ hpc \in {"idle", "done"}
    /\ nLookups < MaxLookups
    /\ ~tlLock
    /\ tlLock' = TRUE
    /\ hLast' = lastReload
    /\ nLookups' = nLookups + 1
    /\ hpc' = "readCertificate"
    /\ UNCHANGED <<certFile, keyFile, tlCertificate, tlErr, phase, watching, pending,
                   lpc, lloc, hres, lastReload, initErr, nFileChanges, nReloads>>

\* GetCertificate: the read of tl.certificate.
GetCertificateRead ==
    /\ UNCHANGED <<syncVars, dhVars, buildVars, luaVars>>
    /\ hpc = "readCertificate"
    /\ hres' = [hres EXCEPT !.certificate = tlCertificate]
    /\ hpc' = "readErr"
    /\ UNCHANGED <<certFile, keyFile, tlCertificate, tlErr, tlLock, phase, watching, pending,
                   lpc, lloc, hLast, lastReload, initErr, nFileChanges, nLookups, nReloads>>

\* GetCertificate: the read of tl.err, the deferred Unlock and the return.
GetCertificateReturn ==
    /\ UNCHANGED <<syncVars, dhVars, buildVars, luaVars>>
    /\ hpc = "readErr"
    /\ hres' = [hres EXCEPT !.err = tlErr]
    /\ tlLock' = FALSE
    /\ hpc' = "done"
    /\ UNCHANGED <<certFile, keyFile, tlCertificate, tlErr, phase, watching, pending,
                   lpc, lloc, hLast, lastReload, initErr, nFileChanges, nLookups, nReloads>>

NextTLS ==
    \/ NewTLSListener
    \/ \E l \in Loaders : LoadReadCert(l)
    \/ \E l \in Loaders : LoadClearCertificate(l)
    \/ \E l \in Loaders : LoadSetErr(l)
    \/ \E l \in Loaders : LoadReadKey(l)
    \/ \E l \in Loaders : LoadParse(l)
    \/ \E l \in Loaders : LoadLock(l)
    \/ \E l \in Loaders : LoadSwapCertificate(l)
    \/ \E l \in Loaders : LoadSwapErr(l)
    \/ \E l \in Loaders : LoadUnlock(l)
    \/ Register
    \/ \E w \in Watchers : ChangeFile(w)
    \/ \E w \in Watchers : WatchFire(w)
    \/ GetCertificateLock
    \/ GetCertificateRead
    \/ GetCertificateReturn


(***************************************************************************)
(* internal/net/ssl/ssl.go: AddOrUpdateDHParam.                            *)
(***************************************************************************)
DHNames == { <<"d", "h">>, <<"d", "h", "2">> }
DHBytes == { DHPEM("p1"), DHPEM("p2"), CertPEM("leafA"), <<Junk>> }

DLoc0 == [name |-> <<>>, dh |-> <<>>, tmp |-> <<>>, pemCerts |-> <<>>, err |-> "",
          deferred |-> FALSE, result |-> <<>>, files0 |-> <<>>]

InitDH ==
    /\ dpc = "idle"
    /\ dloc = DLoc0
    /\ nDH = 0

RemoveFile(path) == files' = [x \in DOMAIN files \ {path} |-> files[x]]

DHFail(msg) ==
    /\ dloc' = [dloc EXCEPT !.err = msg]
    /\ dpc' = "return"

\* A caller calls AddOrUpdateDHParam(name, dh, fs).
DHCall(name, dh) ==
    /\ UNCHANGED <<syncVarsButFiles, tlsVars, buildVars, luaVars>>
    /\ dpc \in {"idle", "done"}
    /\ nDH < MaxDHCalls
    /\ nDH' = nDH + 1
    /\ dloc' = [DLoc0 EXCEPT !.name = name, !.dh = dh, !.files0 = files]
    /\ dpc' = "tempFile"
    /\ UNCHANGED files

\* fs.TempFile(file.DefaultSSLDirectory, pemName): a new empty file whose
\* name starts with pemName.  When it fails, the tempPemFile.Name() of the
\* log line comes before the test of err: it panics when the filesystem
\* returned a nil file with the error, and the error is returned otherwise.
DHTempFile ==
    /\ UNCHANGED <<syncVarsButFiles, tlsVars, buildVars, luaVars>>
    /\ dpc = "tempFile"
    /\ \/ LET tmp == DefaultSSLDirectory \o <<"/">> \o pemName(dloc.name) \o <<ToString(nDH)>>
          IN  /\ WriteFile(tmp, <<>>)
              /\ dloc' = [dloc EXCEPT !.tmp = tmp]
              /\ dpc' = "write"
       \/ /\ dpc' = "panic"
          /\ UNCHANGED <<files, dloc>>
       \/ /\ DHFail("could not create temp pem file")
          /\ UNCHANGED files
    /\ UNCHANGED nDH

\* tempPemFile.Write(dh)
DHWrite ==
    /\ UNCHANGED <<syncVarsButFiles, tlsVars, buildVars, luaVars>>
    /\ dpc = "write"
    /\ \/ /\ WriteFile(dloc.tmp, dloc.dh)
          /\ dpc' = "close"
          /\ UNCHANGED dloc
       \/ /\ DHFail("could not write to pem file")
          /\ UNCHANGED files
    /\ UNCHANGED nDH

\* tempPemFile.Close(), then defer fs.RemoveAll(tempPemFile.Name()).
DHClose ==
    /\ UNCHANGED <<syncVarsButFiles, tlsVars, buildVars, luaVars>>
    /\ dpc = "close"
    /\ \/ /\ dloc' = [dloc EXCEPT !.deferred = TRUE]
          /\ dpc' = "read"
       \/ DHFail("could not close temp pem file")
    /\ UNCHANGED <<files, nDH>>

\* fs.ReadFile(tempPemFile.Name())
DHRead ==
    /\ UNCHANGED <<syncVarsButFiles, tlsVars, buildVars, luaVars>>
    /\ dpc = "read"
    /\ \/ /\ Exists(dloc.tmp)
          /\ dloc' = [dloc EXCEPT !.pemCerts = files[dloc.tmp]]
          /\ dpc' = "decode"
       \/ DHFail("read failed")
    /\ UNCHANGED <<files, nDH>>

\* Mutant: any PEM block is accepted.
IsDHParam_AnyBlock(pemBlock) == pemBlock.ok

\* The block is a "DH PARAMETERS" block.
IsDHParam(pemBlock) == pemBlock.ok /\ pemBlock.type = "DH PARAMETERS"

\* pem.Decode(pemCerts) and the test of the type of the block.
DHDecode ==
    /\ UNCHANGED <<syncVarsButFiles, tlsVars, buildVars, luaVars>>
    /\ dpc = "decode"
    /\ LET pemBlock == pemDecode(dloc.pemCerts)
       IN  IF ~pemBlock.ok THEN DHFail("no valid PEM formatted block found")
           ELSE IF ~IsDHParam(pemBlock) THEN DHFail("certificate contains invalid data")
           ELSE dpc' = "rename" /\ UNCHANGED dloc
    /\ UNCHANGED <<files, nDH>>

\* fs.Rename(tempPemFile.Name(), pemFileName)
DHRename ==
    /\ UNCHANGED <<syncVarsButFiles, tlsVars, buildVars, luaVars>>
    /\ dpc = "rename"
    /\ \/ /\ Exists(dloc.tmp)
          /\ files' = [x \in (DOMAIN files \ {dloc.tmp}) \cup {getPemFileName(dloc.name)} |->
                         IF x = getPemFileName(dloc.name) THEN files[dloc.tmp] ELSE files[x]]
          /\ dloc' = [dloc EXCEPT !.result = getPemFileName(dloc.name)]
          /\ dpc' = "return"
       \/ /\ DHFail("could not move temp pem file")
          /\ UNCHANGED files
    /\ UNCHANGED nDH

\* AddOrUpdateDHParam returns: the deferred fs.RemoveAll, when it was
\* registered, removes the temporary file.
DHReturn ==
    /\ UNCHANGED <<syncVarsButFiles, tlsVars, buildVars, luaVars>>
    /\ dpc = "return"
    /\ IF dloc.deferred THEN RemoveFile(dloc.tmp) ELSE UNCHANGED files
    /\ dpc' = "done"
    /\ UNCHANGED <<dloc, nDH>>

NextDH ==
    \/ \E name \in DHNames, dh \in DHBytes : DHCall(name, dh)
    \/ DHTempFile
    \/ DHWrite
    \/ DHClose
    \/ DHRead
    \/ DHDecode
    \/ DHRename
    \/ DHReturn

(***************************************************************************)
(* internal/net/ssl/ssl.go: CreateSSLCert called on its own.               *)
(***************************************************************************)
\* The bytes a caller passes as cert and as key.
BuildCerts ==
    { CertPEM("leafA"), CertPEM("leafB"), CertPEM("leafC"), CertPEM("leafD"),
      CertPEM("leafA") \o <<NL>> \o CertPEM("rootCA"),
      <<Junk, NL>> \o CertPEM("leafB"),
      <<Block("CERTIFICATE", "garbage")>>,
      KeyPEM("k1"), <<Junk>>, <<>> }
BuildKeys == { KeyPEM("k1"), KeyPEM("k2"), CertPEM("leafA"), <<Junk>>, <<>> }

NoResult == [err |-> "", sslCert |-> NoSSLCert]

InitBuild ==
    /\ bpc = "call"
    /\ bcert \in BuildCerts
    /\ bkey \in BuildKeys
    /\ bnet \in {"ok", "fail"}
    /\ bres = NoResult

\* No caller of CreateSSLCert on its own.
QuietBuild ==
    /\ bpc = "call"
    /\ bres = NoResult
    /\ bcert = <<>>
    /\ bkey = <<>>
    /\ bnet = "ok"

\* CreateSSLCert(cert, key)
Build ==
    /\ bpc = "call"
    /\ bres' = CreateSSLCert(bcert, bkey, EnableSSLChainCompletion, bnet)
    /\ bpc' = "done"
    /\ UNCHANGED <<syncVars, tlsVars, dhVars, luaVars, bcert, bkey, bnet>>

NextBuild ==
    \/ Build

(***************************************************************************)
(* rootfs/etc/nginx/lua/configuration.lua: the endpoint of the Lua side.   *)
(***************************************************************************)
HTTP_OK == 200
HTTP_CREATED == 201
HTTP_BAD_REQUEST == 400
HTTP_NOT_FOUND == 404
HTTP_INTERNAL_SERVER_ERROR == 500

\* "nil" is the Lua nil.
Hostnames == {"h1", "h2"}
PemValues == {"c1", "c2"}
ConfigKeys == {"backends", "general"}
ConfigValues == {"v1", "v2"}

Methods == {"GET", "POST", "PUT"}
RequestPaths ==
    {"/configuration/servers", "/configuration/general", "/configuration/certs",
     "/configuration/backends", "/configuration/other"}
\* The query string: none, a hostname argument, or another argument.
RequestArgs == {"", "hostname=h1", "hostname=h2", "x=1"}
Requests == [method : Methods, path : RequestPaths, args : RequestArgs]
NoRequest == [method |-> "", path |-> ""]

\* ngx.var.request_uri is the request line with its arguments, ngx.var.uri
\* the path without them.
request_uri(req) == IF req.args = "" THEN <<req.path>> ELSE <<req.path, "?", req.args>>
uri(req) == <<req.path>>

\* ngx.req.get_uri_args()["hostname"]
QueryHostname(req) ==
    CASE req.args = "hostname=h1" -> "h1"
      [] req.args = "hostname=h2" -> "h2"
      [] OTHER -> "nil"

\* One element of the decoded list of servers: hostname and
\* sslCert.pemCertKey are strings or nil, sslCert is a table or nil.
Server(hostname, hasSslCert, pemCertKey) ==
    [hostname |-> hostname, hasSslCert |-> hasSslCert, pemCertKey |-> pemCertKey]
ServerShapes ==
    { Server("h1", TRUE, "c1"), Server("h2", TRUE, "c2"),
      Server("nil", TRUE, "c1"), Server("h1", TRUE, "nil"), Server("h2", FALSE, "nil") }

\* What fetch_request_body returns and cjson.decode makes of it: no body,
\* a body that is no JSON, or a list of servers.
NoBody == [kind |-> "nil", servers |-> <<>>, raw |-> "nil"]
BadJSON == [kind |-> "text", servers |-> <<>>, raw |-> "v1"]
ServersBody(l) == [kind |-> "servers", servers |-> l, raw |-> "v2"]
Bodies ==
    {NoBody, BadJSON, ServersBody(<<>>)}
      \cup {ServersBody(<<a>>) : a \in ServerShapes}
      \cup {ServersBody(<<a, b>>) : a \in ServerShapes, b \in ServerShapes}

\* The outcome of a set on a shared dictionary: stored, stored after the
\* least recently used entries were removed (forcible), or not stored for
\* lack of memory, with or without entries removed.
SetOutcomes == {"ok", "forcible", "nomemory", "nomemory-forcible"}
Stored(o) == o \in {"ok", "forcible"}
Evicts(o) == o \in {"forcible", "nomemory-forcible"}

\* dict:set(key, value) with outcome o.
DictSet(dict, key, value, o) ==
    [k \in DOMAIN dict |->
        IF k = key THEN (IF Stored(o) THEN value ELSE dict[k])
        ELSE IF Evicts(o) THEN "nil" ELSE dict[k]]

\* handle_servers, the loop over the servers from the i-th on: the
\* dictionary, whether a set failed (err_buf is not empty), and whether the
\* handler stopped on a Lua error (server.sslCert is nil and is indexed).
RECURSIVE SetServers(_, _, _, _, _)
SetServers(servers, outs, i, dict, failed) ==
    IF i > Len(servers) THEN [dict |-> dict, failed |-> failed, thrown |-> FALSE]
    ELSE LET server == servers[i]
         IN  IF server.hostname = "nil"
             THEN SetServers(servers, outs, i + 1, dict, failed)
             ELSE IF ~server.hasSslCert
             THEN [dict |-> dict, failed |-> failed, thrown |-> TRUE]
             ELSE IF server.pemCertKey = "nil"
             THEN SetServers(servers, outs, i + 1, dict, failed)
             ELSE SetServers(servers, outs, i + 1,
                             DictSet(dict, server.hostname, server.pemCertKey, outs[i]),
                             failed \/ ~Stored(outs[i]))

Answer(status, certs, conf) == [status |-> status, certs |-> certs, conf |-> conf]

\* handle_servers()
handle_servers(req, body, outs) ==
    IF req.method # "POST"
    THEN Answer(HTTP_BAD_REQUEST, certificate_data, configuration_data)
    ELSE IF body.kind # "servers"
    THEN Answer(HTTP_BAD_REQUEST, certificate_data, configuration_data)
    ELSE LET r == SetServers(body.servers, outs, 1, certificate_data, FALSE)
         IN  IF r.thrown \/ r.failed
             THEN Answer(HTTP_INTERNAL_SERVER_ERROR, r.dict, configuration_data)
             ELSE Answer(HTTP_CREATED, r.dict, configuration_data)

\* handle_general(); safe_set never removes entries.
handle_general(req, body, outs) ==
    IF req.method = "GET"
    THEN Answer(HTTP_OK, certificate_data, configuration_data)
    ELSE IF req.method # "POST"
    THEN Answer(HTTP_BAD_REQUEST, certificate_data, configuration_data)
    ELSE IF ~Stored(outs[1])
    THEN Answer(HTTP_INTERNAL_SERVER_ERROR, certificate_data, configuration_data)
    ELSE Answer(HTTP_CREATED, certificate_data,
                DictSet(configuration_data, "general", body.raw, "ok"))

\* handle_certs()
handle_certs(req) ==
    IF req.method # "GET"
    THEN Answer(HTTP_BAD_REQUEST, certificate_data, configuration_data)
    ELSE IF QueryHostname(req) = "nil"
    THEN Answer(HTTP_BAD_REQUEST, certificate_data, configuration_data)
    ELSE IF certificate_data[QueryHostname(req)] # "nil"
    THEN Answer(HTTP_OK, certificate_data, configuration_data)
    ELSE Answer(HTTP_NOT_FOUND, certificate_data, configuration_data)

\* Mutant: the method is not tested before the path.
MethodAllowed_Any(method) == TRUE

\* _M.call: the method is POST or GET.
MethodAllowed(method) == method \in {"POST", "GET"}

\* _M.call()
call(req, body, outs) ==
    IF ~MethodAllowed(req.method)
    THEN Answer(HTTP_BAD_REQUEST, certificate_data, configuration_data)
    ELSE IF request_uri(req) = <<"/configuration/servers">>
    THEN handle_servers(req, body, outs)
    ELSE IF request_uri(req) = <<"/configuration/general">>
    THEN handle_general(req, body, outs)
    ELSE IF uri(req) = <<"/configuration/certs">>
    THEN handle_certs(req)
    ELSE IF request_uri(req) # <<"/configuration/backends">>
    THEN Answer(HTTP_NOT_FOUND, certificate_data, configuration_data)
    ELSE IF req.method = "GET"
    THEN Answer(HTTP_OK, certificate_data, configuration_data)
    ELSE IF body.kind = "nil"
    THEN Answer(HTTP_BAD_REQUEST, certificate_data, configuration_data)
    ELSE IF ~Stored(outs[1])
    THEN Answer(HTTP_BAD_REQUEST, certificate_data,
                DictSet(configuration_data, "backends", body.raw, outs[1]))
    ELSE Answer(HTTP_CREATED, certificate_data,
                DictSet(configuration_data, "backends", body.raw, outs[1]))

InitLua ==
    /\ certificate_data = [h \in Hostnames |-> "nil"]
    /\ configuration_data = [k \in ConfigKeys |-> "nil"]
    /\ request = NoRequest
    /\ ngxStatus = 0

\* A request arrives and _M.call answers it.
Call(req, body, outs) ==
    /\ LET a == call(req, body, outs)
       IN  /\ certificate_data' = a.certs
           /\ configuration_data' = a.conf
           /\ ngxStatus' = a.status
    /\ request' = [method |-> req.method, path |-> req.path]
    /\ UNCHANGED <<syncVars, tlsVars, dhVars, buildVars>>

\* fetch_request_body is called for a POST to the servers and general
\* endpoints and for what is not a GET to the backends endpoint; the body is
\* decoded for the servers endpoint only, and only handle_servers makes
\* more than one set.
ReadsBody(req) ==
    /\ req.args = ""
    /\ \/ req.method = "POST"
          /\ req.path \in {"/configuration/servers", "/configuration/general"}
       \/ req.method # "GET"
          /\ req.path = "/configuration/backends"
BodiesOf(req) ==
    IF ~ReadsBody(req) THEN {NoBody}
    ELSE IF req.path = "/configuration/servers" THEN Bodies
    ELSE {NoBody, BadJSON, ServersBody(<<>>)}
OutcomesOf(req, body) ==
    IF ~ReadsBody(req) THEN {<<"ok", "ok">>}
    ELSE IF Len(body.servers) > 1 THEN [1..2 -> SetOutcomes]
    ELSE {<<o, "ok">> : o \in SetOutcomes}

NextLua ==
    \/ \E req \in Requests : \E body \in BodiesOf(req) : \E outs \in OutcomesOf(req, body) :
          Call(req, body, outs)

(***************************************************************************)
(* The specifications.                                                     *)
(***************************************************************************)
vars == <<syncVars, tlsVars, dhVars, buildVars, luaVars>>

\* The synchronizer before any call, with dynamic certificates enabled and
\* chain completion disabled.
QuietSync ==
    /\ InitSync
    /\ EnableDynamicCertificates = TRUE
    /\ EnableSSLChainCompletion = FALSE

NextSync ==
    \/ \E k \in Keys : ChangeSecret(k)
    \/ \E p \in Procs, k \in Keys : SyncCall(p, k)
    \/ \E p \in Procs : Lock(p)
    \/ \E p \in Procs : GetPem(p)
    \/ \E p \in Procs : StoreCreate(p)
    \/ \E p \in Procs : StoreWrite(p)
    \/ \E p \in Procs : CAVerify(p)
    \/ \E p \in Procs : CACreate(p)
    \/ \E p \in Procs : CAWrite(p)
    \/ \E p \in Procs : CAOnlyCreate(p)
    \/ \E p \in Procs : CAOnlyWrite(p)
    \/ \E p \in Procs : SyncFailed(p)
    \/ \E p \in Procs : SyncCompare(p)
    \/ \E p \in Procs : sendDummyEvent(p)
    \/ \E p \in Procs : Unlock(p)

\* The secret synchronizer: syncSecret called by two workers.
SyncInit == InitSync /\ QuietTLS /\ InitDH /\ QuietBuild /\ InitLua
SpecSync == SyncInit /\ [][NextSync]_vars

\* The listener: NewTLSListener, the two watchers and the handshakes.
TLSInit == QuietSync /\ InitTLS /\ InitDH /\ QuietBuild /\ InitLua
SpecTLS == TLSInit /\ [][NextTLS]_vars

\* AddOrUpdateDHParam called again and again.
DHInit == QuietSync /\ QuietTLS /\ InitDH /\ QuietBuild /\ InitLua
SpecDH == DHInit /\ [][NextDH]_vars

\* CreateSSLCert on its own, for every pair of arguments, with chain
\* completion enabled or not.
BuildInit == InitSync /\ EnableDynamicCertificates /\ QuietTLS /\ InitDH /\ InitBuild /\ InitLua
SpecBuild == BuildInit /\ [][NextBuild]_vars

\* The Lua endpoint answering one request after the other.
LuaInit == QuietSync /\ QuietTLS /\ InitDH /\ QuietBuild /\ InitLua
SpecLua == LuaInit /\ [][NextLua]_vars

(***************************************************************************)
(* Properties of syncSecret.                                               *)
(***************************************************************************)
\* A call of syncSecret that has finished and is about to return.
Finished(p) == pc[p] = "unlock"

\* The call of p follows a finished call for the same key that fetched the
\* same secret record, and no storage operation failed in either.
Repeated(p) ==
    /\ Finished(p)
    /\ hist # <<>>
    /\ hist[1].key = loc[p].key
    /\ hist[1].secret = loc[p].secret
    /\ hist[1].secret.found
    /\ ~hist[1].io
    /\ ~loc[p].io

C2_FailureKeepsCache ==
    \A p \in Procs :
        pc[p] \in {"failed", "unlock"} /\ loc[p].err # "" =>
            /\ sslStore = loc[p].cache0
            /\ loc[p].writes = 0
            /\ loc[p].events = 0

C2_Witness ==
    \E p \in Procs :
        /\ Finished(p)
        /\ loc[p].err # ""
        /\ loc[p].cache0[loc[p].key].has
        /\ sslStore[loc[p].key] = loc[p].cache0[loc[p].key]
        /\ files # loc[p].files0

\* The callers that are inside syncSecret, past the Lock.
InSync == {p \in Procs : pc[p] \notin {"idle", "lock"}}

\* C3: at most one call of syncSecret is past the lock at any time, whatever
\* the keys.
C3_MutualExclusion == Cardinality(InSync) <= 1

C3_Witness ==
    \E p, q \in Procs :
        /\ pc[p] = "storeWrite"
        /\ pc[q] = "lock"
        /\ loc[p].key # loc[q].key

NonEmpty(f) == Has(f) /\ Len(f.b) > 0
KeypairNonEmpty(d) == NonEmpty(d.crt) /\ NonEmpty(d.key)
KeypairPresent(d) == Has(d.crt) /\ Has(d.key)

\* C4 as claimed: the keypair branch is taken only when tls.crt and tls.key
\* are both non-empty, and every other secret with a non-empty ca.crt takes
\* the CA-only branch.
C4_DispatchOnNonEmpty ==
    \A p \in Procs :
        loc[p].shape # "" =>
            LET d == loc[p].secret.Data
            IN  /\ loc[p].shape = "keypair" => KeypairNonEmpty(d)
                /\ ~KeypairNonEmpty(d) /\ NonEmpty(d.ca) => loc[p].shape = "caonly"

\* C4 amended: the keypair branch is taken exactly when tls.crt and tls.key
\* are both present, whatever their length, and then a nil or zero-length
\* value makes the call fail even with a ca.crt; a secret where one of the
\* two is absent and ca.crt is non-empty takes the CA-only branch, and its
\* record, when the call succeeds, is the one ConfigureCACert persisted.
C4_DispatchOnPresence ==
    \A p \in Procs :
        loc[p].shape # "" =>
            LET d == loc[p].secret.Data
                name == nsSecName(loc[p].key)
            IN  /\ loc[p].shape = "keypair" <=> KeypairPresent(d)
                /\ ~KeypairPresent(d) /\ NonEmpty(d.ca) =>
                      /\ loc[p].shape = "caonly"
                      /\ Finished(p) /\ loc[p].err = "" =>
                            /\ loc[p].sslCert.PemFileName = caFileName(name)
                            /\ loc[p].sslCert.CAFileName = caFileName(name)
                            /\ loc[p].sslCert.PemCertKey = <<>>
                            /\ files[caFileName(name)] = d.ca.b
                /\ KeypairPresent(d) /\ ~KeypairNonEmpty(d) /\ Finished(p) =>
                      loc[p].err # ""

C4_Witness ==
    \E p \in Procs :
        /\ Finished(p)
        /\ loc[p].err = ""
        /\ loc[p].shape = "caonly"
        /\ Has(loc[p].secret.Data.crt)
        /\ sslStore[loc[p].key].cert.CAFileName = caFileName(nsSecName(loc[p].key))


ErrMalformed == "secret contains no keypair or CA certificate"

\* C5 as claimed: without a non-empty keypair and without a CA block, a
\* secret fails with ErrSecretForAuth (never logged as a warning) when it has
\* an auth field, and with another error when it has none.
C5_AuthOnNonEmpty ==
    \A p \in Procs :
        Finished(p) /\ loc[p].secret.found =>
            LET d == loc[p].secret.Data
            IN  ~KeypairNonEmpty(d) /\ ~NonEmpty(d.ca) =>
                    IF Has(d.auth)
                    THEN loc[p].err = ErrSecretForAuth /\ ~loc[p].warned
                    ELSE loc[p].err \notin {"", ErrSecretForAuth}

\* C5 amended: a secret where tls.crt and tls.key are not both present and
\* ca.crt is nil or empty fails with ErrSecretForAuth when auth has a
\* non-nil value, and with the "no keypair or CA certificate" error when auth
\* is absent or nil; ErrSecretForAuth is returned in no other case, it is
\* never logged as a warning, and every other error is.
C5_AuthOnPresence ==
    \A p \in Procs :
        Finished(p) /\ loc[p].secret.found =>
            LET d == loc[p].secret.Data
                other == ~KeypairPresent(d) /\ ~NonEmpty(d.ca)
            IN  /\ other /\ ~IsNil(d.auth) => loc[p].err = ErrSecretForAuth
                /\ other /\ IsNil(d.auth) => loc[p].err = ErrMalformed
                /\ loc[p].err = ErrSecretForAuth => other /\ ~IsNil(d.auth) /\ ~loc[p].warned
                /\ loc[p].err \notin {"", ErrSecretForAuth} => loc[p].warned

C5_Witness ==
    \E p \in Procs :
        /\ Finished(p)
        /\ loc[p].err = ErrSecretForAuth
        /\ ~loc[p].warned
        /\ Has(loc[p].secret.Data.auth)

\* The secret holds a certificate and a key that belong together.
ValidKeypair(d) ==
    /\ KeypairNonEmpty(d)
    /\ pemDecode(d.crt.b).type = "CERTIFICATE"
    /\ X509KeyPair(d.crt.b, d.key.b).err = ""

\* C6: with dynamic delivery enabled, a valid keypair and no CA block, the
\* call succeeds without touching a file: the record has no PemFileName, the
\* cache holds it, and one notification is emitted when the cache did not
\* hold it before.  With dynamic delivery disabled or a CA block, the bundle
\* is written to the file of the secret (no storage operation failing).
C6_DynamicKeepsDiskUntouched ==
    \A p \in Procs :
        Finished(p) /\ loc[p].secret.found /\ ValidKeypair(loc[p].secret.Data) =>
            LET d == loc[p].secret.Data
                path == getPemFileName(nsSecName(loc[p].key))
            IN  IF EnableDynamicCertificates /\ ~NonEmpty(d.ca)
                THEN /\ loc[p].err = ""
                     /\ files = loc[p].files0
                     /\ loc[p].sslCert.PemFileName = <<>>
                     /\ sslStore[loc[p].key] = [has |-> TRUE, cert |-> loc[p].sslCert]
                     /\ loc[p].events = IF loc[p].cache0[loc[p].key] = sslStore[loc[p].key]
                                        THEN 0 ELSE 1
                ELSE loc[p].err = "" =>
                     /\ loc[p].sslCert.PemFileName = path
                     /\ Exists(path)
                     /\ SubSeq(files[path], 1, Len(loc[p].sslCert.PemCertKey))
                          = loc[p].sslCert.PemCertKey

\* What remains of C6 where the chain completion does not return nil data.
C6_UnlessChainNil ==
    \A p \in Procs :
        Finished(p) /\ loc[p].secret.found /\ ValidKeypair(loc[p].secret.Data)
          /\ loc[p].chain # "nil" =>
            LET d == loc[p].secret.Data
            IN  EnableDynamicCertificates /\ ~NonEmpty(d.ca) =>
                     /\ loc[p].err = ""
                     /\ files = loc[p].files0
                     /\ loc[p].sslCert.PemFileName = <<>>
                     /\ sslStore[loc[p].key] = [has |-> TRUE, cert |-> loc[p].sslCert]

\* The secret holds a valid ca.crt and nothing else.
CAOnlySecret(d) ==
    /\ ~Has(d.crt) /\ ~Has(d.key) /\ ~Has(d.auth)
    /\ NonEmpty(d.ca)
    /\ CreateCACert(d.ca.b).err = ""

\* C7: for a secret that holds only a valid ca.crt the call succeeds (no
\* storage operation failing) and the cached record has no common names,
\* PemFileName and CAFileName both name "ca-<sanitized key>.pem", that file
\* holds exactly the bytes of ca.crt, and PemSHA is the checksum of the file.
C7_CAOnlyFile ==
    \A p \in Procs :
        Finished(p) /\ loc[p].secret.found /\ CAOnlySecret(loc[p].secret.Data)
          /\ ~loc[p].io =>
            LET r == sslStore[loc[p].key].cert
                fileName == DefaultSSLDirectory \o <<"/", "c", "a", "-">>
                              \o nsSecName(loc[p].key) \o <<".", "p", "e", "m">>
            IN  /\ loc[p].err = ""
                /\ sslStore[loc[p].key].has
                /\ r.CN = <<>>
                /\ r.PemFileName = fileName
                /\ r.CAFileName = fileName
                /\ Exists(fileName)
                /\ files[fileName] = loc[p].secret.Data.ca.b
                /\ r.PemSHA = SHA1(files[fileName])

C7_Witness ==
    \E p \in Procs :
        /\ Finished(p)
        /\ loc[p].secret.found
        /\ CAOnlySecret(loc[p].secret.Data)
        /\ loc[p].err = ""
        /\ loc[p].writes = 1
        /\ sslStore[loc[p].key].cert.CAFileName # <<>>

\* StoreSSLCertOnDisk has just returned nil to getPemCertificate for the
\* call of p: the call is about to configure the CA, or (no CA) about to
\* compare the stored record with the cache.
JustStored(p) ==
    \/ pc[p] = "caVerify"
    \/ /\ pc[p] = "compare"
       /\ loc[p].shape = "keypair"
       /\ loc[p].sslCert.PemFileName # <<>>
       /\ loc[p].sslCert.CAFileName = <<>>

\* C11: right after StoreSSLCertOnDisk returned without error, the file
\* PemFileName names is "<dir>/<sanitized key>.pem", it holds exactly
\* PemCertKey, and the checksum of that file is the PemSHA of the record.
C11_StoredFileMatchesRecord ==
    \A p \in Procs :
        JustStored(p) =>
            LET r == loc[p].sslCert
            IN  /\ r.PemFileName = getPemFileName(nsSecName(loc[p].key))
                /\ Exists(r.PemFileName)
                /\ files[r.PemFileName] = r.PemCertKey
                /\ r.PemSHA = SHA1(files[r.PemFileName])

\* A keypair has been stored over a file of another content.
C11_Witness ==
    \E p \in Procs :
        /\ JustStored(p)
        /\ loc[p].sslCert.PemFileName \in DOMAIN loc[p].files0
        /\ loc[p].files0[loc[p].sslCert.PemFileName] # loc[p].sslCert.PemCertKey
        /\ loc[p].sslCert.PemSHA = SHA1(loc[p].sslCert.PemCertKey)

\* The call of p has succeeded on a secret that holds a keypair and a CA.
SyncedWithCA(p) ==
    /\ Finished(p)
    /\ loc[p].err = ""
    /\ loc[p].shape = "keypair"
    /\ NonEmpty(loc[p].secret.Data.ca)

\* C16: after a successful call for a secret with a keypair and a CA,
\* the first or a later one, the file PemFileName names holds exactly
\* PemCertKey (tls.crt, a newline and tls.key when no chain was fetched),
\* a newline and the bytes of ca.crt, CAFileName is PemFileName, PemSHA is
\* the checksum of that file, and the cache holds this record.
C16_BundleHoldsCAOnce ==
    \A p \in Procs :
        SyncedWithCA(p) =>
            LET r == loc[p].sslCert
                d == loc[p].secret.Data
            IN  /\ r.PemFileName = getPemFileName(nsSecName(loc[p].key))
                /\ r.CAFileName = r.PemFileName
                /\ loc[p].chain # "fetched" => r.PemCertKey = d.crt.b \o <<NL>> \o d.key.b
                /\ Exists(r.PemFileName)
                /\ files[r.PemFileName] = r.PemCertKey \o <<NL>> \o d.ca.b
                /\ r.PemSHA = SHA1(files[r.PemFileName])
                /\ sslStore[loc[p].key] = [has |-> TRUE, cert |-> r]

\* The second successful call in a row for the same secret with a keypair
\* and a CA, over the file the first call left.
C16_Witness ==
    \E p \in Procs :
        /\ SyncedWithCA(p)
        /\ hist # <<>>
        /\ hist[1].key = loc[p].key
        /\ hist[1].secret = loc[p].secret
        /\ hist[1].err = ""
        /\ loc[p].files0 = files

\* C21: whenever no call of syncSecret is running, every cached record that
\* names a file has as PemSHA the checksum of what that file holds now.
C21_ChecksumNeverStale ==
    InSync = {} =>
        \A k \in Keys :
            sslStore[k].has /\ sslStore[k].cert.PemFileName # <<>> =>
                FileSHA1(files, sslStore[k].cert.PemFileName) = sslStore[k].cert.PemSHA

\* The file at path f is created or gets another content in this step.
Overwritten(f) == f \in DOMAIN files' /\ (f \in DOMAIN files => files'[f] # files[f])

\* C22: two different keys never have the same file name, and a step of a
\* call of syncSecret changes no file that the cached record of another key
\* names.
C22_FileNameInjective ==
    [][ /\ \A k1, k2 \in Keys :
               k1 # k2 => getPemFileName(nsSecName(k1)) # getPemFileName(nsSecName(k2))
        /\ \A p \in InSync, k \in Keys :
               k # loc[p].key /\ sslStore[k].has =>
                   ~Overwritten(sslStore[k].cert.PemFileName) ]_vars

\* C19: what a reader without the lock sees during a call of syncSecret is
\* atomic: until the call has updated the cache, the files and the cache are
\* what they were when the call took the lock (no file is empty, partly
\* written or already new while the cache is old).
C19_SyncAppearsAtomic ==
    \A p \in Procs :
        p \in InSync /\ pc[p] \notin {"notify", "unlock"} =>
            /\ files = loc[p].files0
            /\ sslStore = loc[p].cache0

\* The steps of syncSecret that worker p takes once getPemCertificate has
\* been called.
Run(p) ==
    \/ StoreCreate(p)
    \/ StoreWrite(p)
    \/ CAVerify(p)
    \/ CACreate(p)
    \/ CAWrite(p)
    \/ CAOnlyCreate(p)
    \/ CAOnlyWrite(p)
    \/ SyncFailed(p)
    \/ SyncCompare(p)
    \/ sendDummyEvent(p)
    \/ Unlock(p)

\* GetPem(p) can be taken exactly when p is at "getPem".
GetPemEnabled(p) == pc[p] = "getPem"

\* Scheduling: a worker that can take a step of syncSecret takes one, and a
\* worker waiting for the mutex gets it when the mutex is free again and
\* again (sync.Mutex hands the lock to a starving waiter).  The second
\* conjunct is WF_vars(GetPem(p)) with ENABLED written as GetPemEnabled.
SyncFairness ==
    \A p \in Procs :
        /\ WF_vars(Run(p))
        /\ []<>(~GetPemEnabled(p)) \/ []<><<GetPem(p)>>_vars
        /\ SF_vars(Lock(p))

SpecSyncFair == SyncInit /\ [][NextSync]_vars /\ SyncFairness

\* C20: a call of syncSecret that waits for the mutex gets it, and a call
\* that has the mutex returns and releases it, on every path.
C20_LockIsReleased ==
    \A p \in Procs :
        /\ pc[p] = "lock" ~> pc[p] = "getPem"
        /\ pc[p] = "getPem" ~> (pc[p] = "idle" /\ (syncSecretMu => InSync # {}))

\* A call whose chain fetch failed has sent its notification and is about
\* to release the mutex, while the other worker waits for it.
C20_Witness ==
    \E p, q \in Procs :
        /\ pc[p] = "unlock"
        /\ loc[p].chain = "err"
        /\ loc[p].events = 1
        /\ pc[q] = "lock"

(***************************************************************************)
(* Properties of TLSListener.                                              *)
(***************************************************************************)
\* A lookup has returned, and the last reload that had completed when the
\* lookup took the lock was a failed one.
LookupAfterFailedReload == hpc = "done" /\ hLast = "failed"

\* C8: when the last reload completed before a lookup failed (a file could
\* not be read or the pair could not be parsed), the lookup returns an error
\* together with an empty keypair, never a keypair loaded before.
C8_FailClosedAfterFailedReload ==
    LookupAfterFailedReload =>
        /\ hres.err # ""
        /\ IsEmptyKeypair(hres.certificate)

\* The first load gave a valid keypair, a reload failed afterwards, and a
\* lookup returned the error and an empty keypair.
C8_Witness ==
    /\ phase = "serving"
    /\ initErr = ""
    /\ LookupAfterFailedReload
    /\ hres.err # ""
    /\ hres.certificate = Certificate("", "")

Loaded ==
    LET r == X509KeyPair(IF certFile.ok THEN certFile.b ELSE <<>>,
                         IF keyFile.ok THEN keyFile.b ELSE <<>>)
    IN  [certificate |-> Certificate(r.leaf, r.key), err |-> r.err]

\* The provider is returned, every change of a file has made its watcher
\* call load, and every call of load has returned.
Settled ==
    /\ phase = "serving"
    /\ nReloads = nFileChanges
    /\ \A w \in Watchers : pending[w] = 0 /\ lpc[w] = "idle"

\* C23: once every reload the file changes triggered has completed, the
\* keypair and the error of the provider are what loading the files as they
\* are now gives.
C23_EndsConsistentWithFiles ==
    Settled => tlCertificate = Loaded.certificate /\ tlErr = Loaded.err

\* The keypair is a parsed certificate with its key.
IsParsedKeypair(c) == c.ptr = "set" /\ c.leaf # "" /\ c.key # ""

\* C24: a lookup returns a nil error exactly when the keypair it returns is
\* a parsed certificate with its matching key; it never returns a nil or
\* empty keypair with a nil error.
C24_NilErrorIffKeypair ==
    hpc = "done" => (hres.err = "" <=> IsParsedKeypair(hres.certificate))

\* Loader l holds tl.lock.
HoldsLock(l) == lpc[l] \in {"swapCertificate", "swapErr", "unlock"}

\* C17: a step of load that changes tl.certificate or tl.err is taken with
\* tl.lock held by that call of load.
C17_WritesUnderMutex ==
    [][ \A l \in Loaders :
          lpc'[l] # lpc[l] /\ (tlCertificate' # tlCertificate \/ tlErr' # tlErr) =>
              HoldsLock(l) ]_vars

(***************************************************************************)
(* Properties of AddOrUpdateDHParam.                                       *)
(***************************************************************************)
\* The bytes hold no PEM block, or their first PEM block is not of the type
\* "DH PARAMETERS".
BadDH(dh) ==
    LET pemBlock == pemDecode(dh)
    IN  ~pemBlock.ok \/ pemBlock.type # "DH PARAMETERS"

\* The path AddOrUpdateDHParam renames to.
Target == getPemFileName(dloc.name)

\* The target path is as it was when the call started.
TargetUntouched ==
    /\ Exists(Target) <=> Target \in DOMAIN dloc.files0
    /\ Exists(Target) => files[Target] = dloc.files0[Target]

\* C10 as claimed: a call with bad bytes returns an error and there is no
\* file at the target path, whatever calls were made before.
C10_BadParamLeavesNoFile ==
    dpc = "done" /\ BadDH(dloc.dh) =>
        /\ dloc.err # ""
        /\ ~Exists(Target)

\* C10 amended: a call with bad bytes never changes the target path (there
\* is no file if there was none, and the file of an earlier call stays as
\* it was), and when the call returns it returns an error and no path.
C10_BadParamLeavesTargetUntouched ==
    dpc # "idle" /\ BadDH(dloc.dh) =>
        /\ TargetUntouched
        /\ dpc = "done" => dloc.err # "" /\ dloc.result = <<>>

\* A call with bad bytes returned an error after an earlier call for the
\* same name had stored its parameters, which are still there.
C10_Witness ==
    /\ dpc = "done"
    /\ BadDH(dloc.dh)
    /\ dloc.err # ""
    /\ Exists(Target)
    /\ pemDecode(files[Target]).type = "DH PARAMETERS"

\* C18: when a call of AddOrUpdateDHParam that created a temporary file has
\* returned, the temporary file is gone.
C18_NoTempFileLeft ==
    dpc = "done" /\ dloc.tmp # <<>> => ~Exists(dloc.tmp)

(***************************************************************************)
(* Properties of CreateSSLCert.                                            *)
(***************************************************************************)
\* CreateSSLCert has returned a record.
Built == bpc = "done" /\ bres.err = ""

\* The subject CommonName and the dNSName entries of the subjectAltName
\* extension of certificate d.
NamesOf(d) ==
    {Certs[d].cn} \cup {Certs[d].san[i].val : i \in {j \in 1..Len(Certs[d].san) : Certs[d].san[j].tag = 2}}

\* C12: the record CreateSSLCert builds is for the first certificate of
\* cert, and its CN lists the CommonName and the SAN DNS names of that
\* certificate, each once, in ascending order.
C12_CommonNamesSortedUnion ==
    Built =>
        LET d == bres.sslCert.Certificate
            cn == bres.sslCert.CN
        IN  /\ d = pemDecode(bcert).der
            /\ SeqToSet(cn) = NamesOf(d)
            /\ Len(cn) = Cardinality(NamesOf(d))
            /\ \A i, j \in 1..Len(cn) : i < j => NameRank(cn[i]) < NameRank(cn[j])

\* A record was built for a certificate whose SAN repeats a DNS name, is
\* not in order and holds entries that are not DNS names.
C12_Witness ==
    /\ Built
    /\ bres.sslCert.Certificate = "leafC"
    /\ bres.sslCert.CN = <<"a.com", "b.com", "c.com">>

\* CreateSSLCert has returned, and chain completion was enabled.
Completing == bpc = "done" /\ EnableSSLChainCompletion

\* What CreateSSLCert returns for the same arguments with chain completion
\* disabled.
WithoutCompletion == CreateSSLCert(bcert, bkey, FALSE, bnet)

\* C14: when fullChainCert finds the chain complete (no error and no
\* replacement), CreateSSLCert returns what it returns with chain completion
\* disabled: the same outcome and PemCertKey = cert + newline + key.
C14_CompleteChainKeepsOriginal ==
    Completing /\ fullChainCert(bcert, bnet) = [err |-> "", data |-> <<>>] =>
        bres = WithoutCompletion

\* C15: when fullChainCert fails (it cannot decode the certificate, or the
\* fetch of the issuer fails), CreateSSLCert returns what it returns with
\* chain completion disabled.
C15_ChainFailureKeepsOriginal ==
    Completing /\ fullChainCert(bcert, bnet).err # "" =>
        bres = WithoutCompletion

\* The fetch of the issuer failed and the record was built from the bytes
\* of the secret.
C15_Witness ==
    /\ Completing
    /\ fullChainCert(bcert, bnet).err = "fetch"
    /\ bres.err = ""
    /\ bres.sslCert.PemCertKey = bcert \o <<NL>> \o bkey

(***************************************************************************)
(* Properties of the Lua endpoint.                                         *)
(***************************************************************************)
Endpoints ==
    {"/configuration/servers", "/configuration/general", "/configuration/certs",
     "/configuration/backends"}

\* The request is one the endpoint must refuse: a method that is neither
\* GET nor POST, a path that is no endpoint, GET on the servers endpoint or
\* POST on the certs endpoint.
Refused(req) ==
    \/ req.method \notin {"GET", "POST"}
    \/ req.path \notin Endpoints
    \/ req.method = "GET" /\ req.path = "/configuration/servers"
    \/ req.method = "POST" /\ req.path = "/configuration/certs"

\* C13: a request the endpoint must refuse is answered with a 4xx status
\* and changes neither the certificate dictionary nor the configuration
\* dictionary.
C13_RefusedRequestChangesNothing ==
    [][ request' # NoRequest /\ Refused(request') =>
          /\ ngxStatus' \in 400..499
          /\ certificate_data' = certificate_data
          /\ configuration_data' = configuration_data ]_vars

\* A PUT to the servers endpoint was refused with the dictionaries filled.
C13_Witness ==
    /\ request = [method |-> "PUT", path |-> "/configuration/servers"]
    /\ ngxStatus = HTTP_BAD_REQUEST
    /\ certificate_data["h1"] = "c1"
    /\ configuration_data["backends"] # "nil"

====
